---- MODULE Spec2Model ----
(***************************************************************************)
(* Model of the referrer core of nydus-snapshotter:                        *)
(*   - pkg/remote/unpack.go    Unpack / atomicWrite (the Atomic Writer)    *)
(*   - pkg/referrer            checkReferrer, fetchMetadata (the Resolver) *)
(*   - pkg/filesystem          TryFetchMetadata (the Fetch Coordinator)    *)
(*   - cmd/containerd-config-updater   updateTomlConfig, deepMerge         *)
(* The specifications share the variables: SpecWriter runs concurrent      *)
(* Unpack calls on one directory, SpecResolve runs one checkReferrer call  *)
(* against an arbitrary registry, Spec runs concurrent TryFetchMetadata    *)
(* callers, SpecSeq runs them one after the other, SpecFair runs them      *)
(* under fair scheduling and SpecCrash lets the process of an Unpack call  *)
(* be terminated at any point; SpecLabels lets the callers call            *)
(* Filesystem.CheckReferrer as well as TryFetchMetadata.  SpecUpdate runs  *)
(* one updateTomlConfig call of cmd/containerd-config-updater on an        *)
(* arbitrary configuration.                                                *)
(***************************************************************************)
EXTENDS Integers, Sequences, FiniteSets, TLC

\* ------------------------------------------------------------- bounds
NumWriters == 3        \* concurrent Unpack calls in SpecWriter
EntryLen == 2          \* bytes of one archive entry
NumSalts == 1          \* distinct staging names a call can generate
NumCallers == 3        \* concurrent TryFetchMetadata callers in Spec
NumPaths == 2          \* distinct destination paths in Spec
MaxSuffixes == 2       \* length of the configured suffix list
MaxLayers == 2         \* layers of a manifest served by the registry
MaxIndex == 2          \* manifests listed in a referrer index

\* -------------------------------------------------- program constants
retryAttempts == 3     \* retry.Attempts(3)

Writers == 1..NumWriters
Salts == 1..NumSalts
Callers == 1..NumCallers
Paths == 1..NumPaths

metadataNameInLayer == "image/image.boot"
OtherName == "other/file"
EntryNames == {metadataNameInLayer, OtherName}

\* ---------------------------------------------------------- the files
\* A directory entry is absent or names a file with some bytes.
Absent == [exists |-> FALSE, data |-> <<>>]
File(d) == [exists |-> TRUE, data |-> d]

\* The directory of one target path: the target itself (salt 0) and the
\* staging names "<target>.tmp.<pid>-<fd>-<nanotime>", one per salt.
TargetName == 0
Names == {TargetName} \cup Salts

\* Bytes are tagged with the call and the entry they come from, so that a
\* prefix, a mixture or another call's bytes are all distinguishable.
EntryData(w, name) == [i \in 1..EntryLen |-> <<w, name>>]
OldData == [i \in 1..EntryLen |-> <<0, metadataNameInLayer>>]

\* Archives: the sequences of distinct entry names.
Archives ==
    {a \in UNION {[1..n -> EntryNames] : n \in 0..Cardinality(EntryNames)} :
        \A i, j \in DOMAIN a : i # j => a[i] # a[j]}

VARIABLES
    fs,        \* directory of the target: name -> entry
    pre,       \* the target's entry before any call started (never changes)
    wpc,       \* position of each Unpack call
    reader,    \* tr: the bytes of the entry handed to atomicWrite
    inode,     \* bytes staged in the anonymous O_TMPFILE inode
    tmpPath,   \* atomicWrite's tmpPath: 0 is "", else the salt of the name
    attempts,  \* retry.Do's n: the runs of the retried function that collided
    wres,      \* what the call returns: "none" while running, "ok", or an error
    \* --- the Fetch Coordinator (Spec) ---
    meta,      \* the metadata file at each destination path
    gateMap,   \* the map of per-path mutexes: path -> mutex, 0 when no entry
    holder,    \* per mutex: the caller holding it, 0 when unlocked
    cpc,       \* position of each TryFetchMetadata caller
    path,      \* metadataPath once the labels are validated, 0 before
    mu,        \* the mutex getMetadataMutex gave the caller, 0 before
    runs,      \* runs of fetchMetadata's handle() started by the call
    cres,      \* what the call returns: "none" while running, "ok", "label" (a
               \* label error), "unpack" (the wrapped "unpack metadata from layer"
               \* error) or "err" (any other wrapped "try fetch metadata" error)
    how,       \* history: "shortcut" or "sequence" for a successful call,
               \* "noref" or "baddigest" for the label check that failed,
               \* "disabled" or "resolver" for a CheckReferrer without referrer
               \* detection or decided by the resolver
    \* --- the Referrer Resolver (SpecResolve) ---
    ref,       \* the image reference, a sequence of tokens
    suffixes,  \* r.referrerTagSuffixes
    rpc,       \* position of the checkReferrer call
    rpass,     \* which run of handle() this is: 1, or 2 for the retry
    index,     \* index.Manifests of the parsed referrer index
    cand,      \* candidateRef of the current tag candidate
    manifest,  \* the candidate manifest parsed last by the tag-based path
    idx,       \* position of the loop over the suffixes
    stdErr,    \* history: the error of checkReferrerStandard in this run
    tagRan,    \* history: checkReferrerTagBased was called in this run
    tried,     \* history: the candidates resolved in this run, in order
    oversize,  \* history: the referrer index just read was larger than the cap
    rdesc,     \* desc returned by handle()
    rerr,      \* err returned by handle()
    \* --- the containerd config updater (SpecUpdate) ---
    configIn,        \* the configuration in the file before the call
    configFile,      \* the configuration in the file at configPath
    runtimeHandler,  \* the runtimeHandler argument, "" for none
    upc,             \* position of the updateTomlConfig call
    updatedConfig,   \* updatedConfig once merged
    ures             \* what the call returns: "none" while running, "ok" or
                     \* the step that failed

wvars == <<fs, pre, wpc, reader, inode, tmpPath, attempts, wres>>
cvars == <<meta, gateMap, holder, cpc, path, mu, runs, cres, how>>
rvars == <<ref, suffixes, rpc, rpass, index, cand, manifest, idx, stdErr,
           tagRan, tried, oversize, rdesc, rerr>>
uvars == <<configIn, configFile, runtimeHandler, upc, updatedConfig, ures>>
vars == <<fs, pre, wpc, reader, inode, tmpPath, attempts, wres,
          meta, gateMap, holder, cpc, path, mu, runs, cres, how,
          ref, suffixes, rpc, rpass, index, cand, manifest, idx, stdErr,
          tagRan, tried, oversize, rdesc, rerr,
          configIn, configFile, runtimeHandler, upc, updatedConfig, ures>>

\* -------------------------------------------------------------- Unpack
\* The loop of Unpack: index of the first entry named source, 0 at EOF.
RECURSIVE ScanFrom(_, _, _)
ScanFrom(a, source, i) ==
    IF i > Len(a) THEN 0
    ELSE IF a[i] = source THEN i
    ELSE ScanFrom(a, source, i + 1)

\* Mutant of FindEntry: an archive without the entry yields its first entry.
FindEntryOrFirst(a, source) ==
    IF ScanFrom(a, source, 1) = 0 /\ Len(a) > 0 THEN 1 ELSE ScanFrom(a, source, 1)

FindEntry(a, source) == ScanFrom(a, source, 1)

\* A return of Unpack: the deferred file.Close() drops the anonymous inode
\* and the frame of atomicWrite is gone.
Return(w, r) ==
    /\ wres' = [wres EXCEPT ![w] = r]
    /\ wpc' = [wpc EXCEPT ![w] = "done"]
    /\ reader' = [reader EXCEPT ![w] = <<>>]
    /\ inode' = [inode EXCEPT ![w] = <<>>]
    /\ tmpPath' = [tmpPath EXCEPT ![w] = 0]
    /\ attempts' = [attempts EXCEPT ![w] = 0]

\* Unpack up to the call of atomicWrite: DecompressStream, then tr.Next()
\* until hdr.Name == source.  stream says what the stream does: it fails to
\* decompress, tr.Next() fails at or before the entry looked for, or every
\* header up to that entry (or to EOF) is read.
UnpackScan(w) ==
    /\ wpc[w] = "call"
    /\ \E a \in Archives, stream \in {"decompress", "tar", "read"} :
        LET k == FindEntry(a, metadataNameInLayer) IN
        IF stream # "read" THEN
            Return(w, stream)
        ELSE IF k = 0 THEN
            Return(w, "notfound")
        ELSE
            /\ reader' = [reader EXCEPT ![w] = EntryData(w, a[k])]
            /\ wpc' = [wpc EXCEPT ![w] = "open"]
            /\ UNCHANGED <<wres, inode, tmpPath, attempts>>
    /\ UNCHANGED <<fs, pre, cvars, rvars, uvars>>

\* --------------------------------------------------------- atomicWrite
\* unix.Open(dir, O_TMPFILE|...): an unnamed inode, or an error.
AwOpen(w) ==
    /\ wpc[w] = "open"
    /\ \/ /\ wpc' = [wpc EXCEPT ![w] = "copy"]
          /\ UNCHANGED <<wres, reader, inode, tmpPath, attempts>>
       \/ Return(w, "open")
    /\ UNCHANGED <<fs, pre, cvars, rvars, uvars>>

\* Mutant of CopyOutcome: the error of io.Copy is dropped and the bytes
\* copied so far go on to be synced and linked.
CopyOutcomeIgnoreErr(w, n, ok) ==
    /\ inode' = [inode EXCEPT ![w] = SubSeq(reader[w], 1, n)]
    /\ wpc' = [wpc EXCEPT ![w] = "sync"]
    /\ UNCHANGED <<wres, reader, tmpPath, attempts>>

\* io.Copy(file, reader): all the bytes, or an error after n of them.
CopyOutcome(w, n, ok) ==
    IF ok /\ n = Len(reader[w])
    THEN /\ inode' = [inode EXCEPT ![w] = reader[w]]
         /\ wpc' = [wpc EXCEPT ![w] = "sync"]
         /\ UNCHANGED <<wres, reader, tmpPath, attempts>>
    ELSE Return(w, "copy")

AwCopy(w) ==
    /\ wpc[w] = "copy"
    /\ \E n \in 0..Len(reader[w]), ok \in BOOLEAN : CopyOutcome(w, n, ok)
    /\ UNCHANGED <<fs, pre, cvars, rvars, uvars>>

\* Mutant of AwSync: when the sync fails the data is linked to the target
\* all the same and the error returned afterwards.
AwSyncLinkOnError(w) ==
    /\ wpc[w] = "sync"
    /\ \/ /\ wpc' = [wpc EXCEPT ![w] = "link"]
          /\ UNCHANGED <<fs, wres, reader, inode, tmpPath, attempts>>
       \/ /\ fs' = [fs EXCEPT ![TargetName] = File(inode[w])]
          /\ Return(w, "sync")
    /\ UNCHANGED <<pre, cvars, rvars, uvars>>

\* file.Sync()
AwSync(w) ==
    /\ wpc[w] = "sync"
    /\ \/ /\ wpc' = [wpc EXCEPT ![w] = "link"]
          /\ UNCHANGED <<wres, reader, inode, tmpPath, attempts>>
       \/ Return(w, "sync")
    /\ UNCHANGED <<fs, pre, cvars, rvars, uvars>>

\* unix.Linkat(procPath -> target): nil, EEXIST when the target exists, or
\* another error.
AwLink(w) ==
    /\ wpc[w] = "link"
    /\ \/ /\ ~fs[TargetName].exists
          /\ fs' = [fs EXCEPT ![TargetName] = File(inode[w])]
          /\ Return(w, "ok")
       \/ /\ fs[TargetName].exists
          /\ wpc' = [wpc EXCEPT ![w] = "stage"]
          /\ UNCHANGED <<fs, wres, reader, inode, tmpPath, attempts>>
       \/ /\ Return(w, "link")
          /\ UNCHANGED fs
    /\ UNCHANGED <<pre, cvars, rvars, uvars>>

\* Mutant of AwStage: a colliding name is tried once more than
\* retry.Attempts allows.
AwStageOneMore(w) ==
    /\ wpc[w] = "stage"
    /\ \E s \in Salts :
        /\ tmpPath' = [tmpPath EXCEPT ![w] = s]
        /\ \/ /\ ~fs[s].exists
              /\ fs' = [fs EXCEPT ![s] = File(inode[w])]
              /\ wpc' = [wpc EXCEPT ![w] = "rename"]
              /\ attempts' = [attempts EXCEPT ![w] = 0]
              /\ UNCHANGED wres
           \/ /\ fs[s].exists
              /\ attempts' = [attempts EXCEPT ![w] = @ + 1]
              /\ IF attempts[w] + 1 >= retryAttempts + 1
                 THEN /\ wres' = [wres EXCEPT ![w] = "staging"]
                      /\ wpc' = [wpc EXCEPT ![w] = "cleanup"]
                 ELSE UNCHANGED <<wres, wpc>>
              /\ UNCHANGED fs
           \/ /\ wres' = [wres EXCEPT ![w] = "staging"]
              /\ wpc' = [wpc EXCEPT ![w] = "cleanup"]
              /\ UNCHANGED <<fs, attempts>>
    /\ UNCHANGED <<reader, inode, pre, cvars, rvars, uvars>>

\* One run of the function given to retry.Do: tmpPath is assigned first,
\* then linked.  EEXIST is retried until retry.Attempts(3) runs are used;
\* any other error is retry.Unrecoverable.
AwStage(w) ==
    /\ wpc[w] = "stage"
    /\ \E s \in Salts :
        /\ tmpPath' = [tmpPath EXCEPT ![w] = s]
        /\ \/ /\ ~fs[s].exists
              /\ fs' = [fs EXCEPT ![s] = File(inode[w])]
              /\ wpc' = [wpc EXCEPT ![w] = "rename"]
              /\ attempts' = [attempts EXCEPT ![w] = 0]
              /\ UNCHANGED wres
           \/ /\ fs[s].exists
              /\ attempts' = [attempts EXCEPT ![w] = @ + 1]
              /\ IF attempts[w] + 1 >= retryAttempts
                 THEN /\ wres' = [wres EXCEPT ![w] = "staging"]
                      /\ wpc' = [wpc EXCEPT ![w] = "cleanup"]
                 ELSE UNCHANGED <<wres, wpc>>
              /\ UNCHANGED fs
           \/ /\ wres' = [wres EXCEPT ![w] = "staging"]
              /\ wpc' = [wpc EXCEPT ![w] = "cleanup"]
              /\ UNCHANGED <<fs, attempts>>
    /\ UNCHANGED <<reader, inode, pre, cvars, rvars, uvars>>

\* Mutant of AwRename: the target is unlinked first and the staging name
\* moved in a second step that can fail.
AwRenameUnlinkFirst(w) ==
    /\ wpc[w] = "rename"
    /\ \/ /\ fs[tmpPath[w]].exists
          /\ fs' = [fs EXCEPT ![TargetName] = fs[tmpPath[w]],
                              ![tmpPath[w]] = Absent]
          /\ wres' = [wres EXCEPT ![w] = "ok"]
       \/ /\ wres' = [wres EXCEPT ![w] = "rename"]
          /\ fs' = [fs EXCEPT ![TargetName] = Absent]
    /\ wpc' = [wpc EXCEPT ![w] = "cleanup"]
    /\ UNCHANGED <<reader, inode, tmpPath, attempts, pre, cvars, rvars, uvars>>

\* os.Rename(tmpPath, target): moves whatever tmpPath names at that moment
\* onto target; ENOENT when tmpPath is gone; or another error.
AwRename(w) ==
    /\ wpc[w] = "rename"
    /\ \/ /\ fs[tmpPath[w]].exists
          /\ fs' = [fs EXCEPT ![TargetName] = fs[tmpPath[w]],
                              ![tmpPath[w]] = Absent]
          /\ wres' = [wres EXCEPT ![w] = "ok"]
       \/ /\ wres' = [wres EXCEPT ![w] = "rename"]
          /\ UNCHANGED fs
    /\ wpc' = [wpc EXCEPT ![w] = "cleanup"]
    /\ UNCHANGED <<reader, inode, tmpPath, attempts, pre, cvars, rvars, uvars>>

\* Mutant of AwCleanup: the deferred func removes nothing.
AwCleanupSkipped(w) ==
    /\ wpc[w] = "cleanup"
    /\ UNCHANGED fs
    /\ Return(w, wres[w])
    /\ UNCHANGED <<pre, cvars, rvars, uvars>>

\* The deferred func: if len(tmpPath) > 0 { _ = os.Remove(tmpPath) }, after
\* which atomicWrite and Unpack return what the body decided.
AwCleanup(w) ==
    /\ wpc[w] = "cleanup"
    /\ IF tmpPath[w] # 0
       THEN fs' = [fs EXCEPT ![tmpPath[w]] = Absent]
       ELSE UNCHANGED fs
    /\ Return(w, wres[w])
    /\ UNCHANGED <<pre, cvars, rvars, uvars>>

\* ------------------------------------- the registry and the references
\* References are sequences of tokens; ":" , "/" and "@" are tokens of
\* their own, so that strings.Split(ref, ":") is computed on the tokens.
Refs ==
    { <<"reg", "/", "repo", ":", "tag">>,
      <<"reg", ":", "5000", "/", "repo", ":", "tag">>,
      <<"reg", "/", "repo", ":", "tag", "@", "sha256", ":", "abc">>,
      <<"reg", "/", "repo", "@", "sha256", ":", "abc">>,
      <<"reg", "/", "repo">>,
      <<"reg", ":", "5000", "/", "repo">> }

Suffixes == {"-nydus", "-opt"}
SuffixLists == UNION {[1..n -> Suffixes] : n \in 0..MaxSuffixes}

\* manifestDigest, and the subject a served manifest can carry.
Expected == "expected"
Subjects == {"none", Expected, "other"}

\* A layer is the set of its annotation keys.
LayerAnnotationNydusBootstrap == "containerd.io/snapshot/nydus-bootstrap"
Layers == {{}, {LayerAnnotationNydusBootstrap}}
IsNydusMetaLayer(annotations) == LayerAnnotationNydusBootstrap \in annotations

Manifests ==
    [subject : Subjects,
     layers : UNION {[1..n -> Layers] : n \in 0..MaxLayers}]
NoManifest == [subject |-> "unset", layers |-> <<>>]

\* index.Manifests: descriptors of the listed manifests, told apart by id.
Indexes ==
    {i \in UNION {[1..n -> 1..MaxIndex] : n \in 0..MaxIndex} :
        \A j, k \in DOMAIN i : j # k => i[j] # i[k]}

\* The body of a referrer index response: a JSON document of docSize bytes
\* that lists index, in a response of size bytes (the document and any
\* white space after it).  Sizes are the cap and one byte more.
maxManifestIndexSize == 8388608
Sizes == {maxManifestIndexSize, maxManifestIndexSize + 1}
Bodies == {b \in [index : Indexes, docSize : Sizes, size : Sizes] : b.docSize <= b.size}
\* io.ReadAll(io.LimitReader(rc, maxManifestIndexSize)): the bytes read.
LimitRead(b) == IF b.size <= maxManifestIndexSize THEN b.size ELSE maxManifestIndexSize
\* json.Unmarshal succeeds on the bytes read when the whole document is
\* among them.
Unmarshals(b) == b.docSize <= LimitRead(b)

\* Errors carry their message and the verdict RetryWithPlainHTTP gives on
\* them.  The verdict on an error built by fmt.Errorf is not known from
\* the sources (the classifier also sees ref), so both are possible.
NoErr == [msg |-> "", plain |-> FALSE]
Errors(msgs) == [msg : msgs, plain : BOOLEAN]

\* The descriptor handle() returns: the last layer of a manifest, with the
\* path that found it, the listed entry or the candidate it was fetched
\* for, and the manifest it is a layer of.
NoDesc == [via |-> "none", entry |-> 0, cand |-> <<>>, manifest |-> NoManifest, layer |-> 0]
Desc(via, entry, c, m) ==
    [via |-> via, entry |-> entry, cand |-> c, manifest |-> m, layer |-> Len(m.layers)]

\* strings.Split(s, sep) and strings.Join(parts, sep) on token sequences.
RECURSIVE SplitFrom(_, _, _, _, _)
SplitFrom(s, sep, i, cur, acc) ==
    IF i > Len(s) THEN Append(acc, cur)
    ELSE IF s[i] = sep THEN SplitFrom(s, sep, i + 1, <<>>, Append(acc, cur))
    ELSE SplitFrom(s, sep, i + 1, Append(cur, s[i]), acc)

Split(s, sep) == SplitFrom(s, sep, 1, <<>>, <<>>)

RECURSIVE Join(_, _)
Join(parts, sep) ==
    IF Len(parts) = 0 THEN <<>>
    ELSE IF Len(parts) = 1 THEN parts[1]
    ELSE parts[1] \o <<sep>> \o Join(Tail(parts), sep)

\* The reference as parseTagFromReference and generateReferrerCandidates
\* read it: the digest is what follows "@", the tag is what follows a ":"
\* that comes after the last "/" of the rest, and the repository is what
\* precedes that ":".
RECURSIVE LastIndex(_, _, _)
LastIndex(s, tok, i) ==
    IF i = 0 THEN 0
    ELSE IF s[i] = tok THEN i
    ELSE LastIndex(s, tok, i - 1)

HasDigest(r) == LastIndex(r, "@", Len(r)) # 0
Locator(r) == IF HasDigest(r) THEN SubSeq(r, 1, LastIndex(r, "@", Len(r)) - 1) ELSE r
TagColon(r) ==
    LET l == Locator(r)
        c == LastIndex(l, ":", Len(l))
    IN IF c > LastIndex(l, "/", Len(l)) THEN c ELSE 0
HasTag(r) == TagColon(r) # 0
Repository(r) == IF HasTag(r) THEN SubSeq(Locator(r), 1, TagColon(r) - 1) ELSE Locator(r)
\* The base tag: the tag, "latest" when there is neither tag nor digest.
ParsedTag(r) ==
    IF HasTag(r) THEN SubSeq(Locator(r), TagColon(r) + 1, Len(Locator(r)))
    ELSE <<"latest">>
ExpectedCandidate(r, suffix) == Repository(r) \o <<":">> \o ParsedTag(r) \o <<suffix>>

\* baseTag := parts[len(parts)-1]; baseRef := strings.Join(parts[:len(parts)-1], ":")
BaseTag(r) == LET parts == Split(r, ":") IN parts[Len(parts)]
BaseRef(r) == LET parts == Split(r, ":") IN Join(SubSeq(parts, 1, Len(parts) - 1), ":")
\* candidateRef := baseRef + ":" + baseTag + suffix
CandidateRef(r, suffix) == BaseRef(r) \o <<":">> \o BaseTag(r) \o <<suffix>>

\* No checkReferrer call: the resolver's variables in the other
\* specifications.
InitNoResolve ==
    /\ ref = <<>>
    /\ suffixes = <<>>
    /\ rpc = "done"
    /\ rpass = 1
    /\ index = <<>>
    /\ cand = <<>>
    /\ manifest = NoManifest
    /\ idx = 0
    /\ stdErr = NoErr
    /\ tagRan = FALSE
    /\ tried = <<>>
    /\ oversize = FALSE
    /\ rdesc = NoDesc
    /\ rerr = NoErr

\* ------------------------------------------------------------ SpecWriter
\* The calls of Unpack about to start, on a target that is absent or holds
\* old content.
InitCalls ==
    /\ pre \in {Absent, File(OldData)}
    /\ fs = [n \in Names |-> IF n = TargetName THEN pre ELSE Absent]
    /\ wpc = [w \in Writers |-> "call"]
    /\ reader = [w \in Writers |-> <<>>]
    /\ inode = [w \in Writers |-> <<>>]
    /\ tmpPath = [w \in Writers |-> 0]
    /\ attempts = [w \in Writers |-> 0]
    /\ wres = [w \in Writers |-> "none"]

\* The callers of the Fetch Coordinator, at rest.
InitCallers ==
    /\ meta = [p \in Paths |-> Absent]
    /\ gateMap = [p \in Paths |-> 0]
    /\ holder = [m \in Paths |-> 0]
    /\ cpc = [c \in Callers |-> "call"]
    /\ path = [c \in Callers |-> 0]
    /\ mu = [c \in Callers |-> 0]
    /\ runs = [c \in Callers |-> 0]
    /\ cres = [c \in Callers |-> "none"]
    /\ how = [c \in Callers |-> "none"]

\* ------------------------------------------ the containerd config updater
\* A value of the decoded TOML document (interface{}): a string, an
\* integer, a boolean, a table (map[string]interface{}) or nil.  Every value
\* has the three fields, so that any two values can be compared.
EmptyMap == [k \in {} |-> ""]
Nil == [kind |-> "nil", s |-> "", m |-> EmptyMap]
String(v) == [kind |-> "string", s |-> v, m |-> EmptyMap]
Integer(v) == [kind |-> "int", s |-> v, m |-> EmptyMap]
Boolean(v) == [kind |-> "bool", s |-> v, m |-> EmptyMap]
Map(f) == [kind |-> "map", s |-> "", m |-> f]

\* value.(map[string]interface{})
IsMap(x) == x.kind = "map"
\* x[k] followed by a type assertion: nil when x is no table or has no k.
Lookup(x, k) == IF IsMap(x) /\ k \in DOMAIN x.m THEN x.m[k] ELSE Nil
\* The table with the fields of g that are not nil.
Prune(g) == Map([k \in {j \in DOMAIN g : g[j] # Nil} |-> g[k]])

CriPlugin == "io.containerd.grpc.v1.cri"
NydusSocket == "/run/containerd-nydus/containerd-nydus-grpc.sock"

\* The configurations the file can hold: runtimes "runc" and "nydus", each
\* absent, not a table, or a table of some of runtime_type, snapshotter and
\* options; default_runtime_name absent, one of the two, or not a string.
RuntimeOptions ==
    { Map("SystemdCgroup" :> Boolean("true")),
      Map("BinaryName" :> String("/usr/bin/runc")) }
RuntimeConfigs ==
    { Prune([runtime_type |-> t, snapshotter |-> sn, options |-> o]) :
        t \in {Nil, String("io.containerd.runc.v2")},
        sn \in {Nil, String("overlayfs")},
        o \in {Nil} \cup RuntimeOptions }
RuntimeEntries == RuntimeConfigs \cup {Nil, Integer("1")}
RuntimesTables ==
    { Prune([runc |-> a, nydus |-> b]) : a \in RuntimeEntries, b \in RuntimeEntries }
        \cup {Nil, String("none")}
ContainerdTables ==
    { Prune([default_runtime_name |-> n, snapshotter |-> sn, runtimes |-> r,
             discard_unpacked_layers |-> Boolean("true")]) :
        n \in {Nil, String("runc"), String("nydus"), Integer("1")},
        sn \in {Nil, String("overlayfs")},
        r \in RuntimesTables }
Configs ==
    { Map("plugins" :> Map(CriPlugin :> Map("containerd" :> c))) : c \in ContainerdTables }
        \cup { Nil, Map("plugins" :> String("none")),
               Map("plugins" :> Map(CriPlugin :> Map(EmptyMap))) }
RuntimeHandlers == {"", "nydus", "runc"}

\* extractDefaultRuntimeConfig: nil as soon as one of the lookups is not of
\* the type asserted.
ExtractDefaultRuntimeConfig(config) ==
    LET plugins == Lookup(config, "plugins")
        cri == Lookup(plugins, CriPlugin)
        containerd == Lookup(cri, "containerd")
        defaultRuntimeName == Lookup(containerd, "default_runtime_name")
        runtimes == Lookup(containerd, "runtimes")
    IN IF defaultRuntimeName.kind # "string" THEN Nil
       ELSE IF ~IsMap(Lookup(runtimes, defaultRuntimeName.s)) THEN Nil
       ELSE Lookup(runtimes, defaultRuntimeName.s)

\* deepMerge(source, destination): the source is returned for a nil
\* destination; else every key of the source is written into the
\* destination, tables being merged when both sides have one.  The
\* destination is changed in place and the source is only read, so the
\* result is the value computed here.
RECURSIVE DeepMerge(_, _)
DeepMerge(source, destination) ==
    IF destination.kind = "nil" THEN source
    ELSE Map([k \in DOMAIN destination.m \cup DOMAIN source.m |->
            IF k \notin DOMAIN source.m THEN destination.m[k]
            ELSE IF /\ k \in DOMAIN destination.m
                    /\ IsMap(source.m[k])
                    /\ IsMap(destination.m[k])
                 THEN DeepMerge(source.m[k], destination.m[k])
            ELSE source.m[k]])

\* nydusConfig of updateTomlConfig.
NydusSnapshotter == Map("snapshotter" :> String("nydus"))
NydusConfig(config, handler) ==
    LET defaultSnapshotter == IF handler = "" THEN NydusSnapshotter ELSE Nil
        containerdRuntime ==
            IF handler = "" THEN Nil
            ELSE Map("runtimes" :> Map(handler :>
                    DeepMerge(ExtractDefaultRuntimeConfig(config), NydusSnapshotter)))
    IN Map(("proxy_plugins" :> Map("nydus" :>
                Map(("type" :> String("snapshot")) @@ ("address" :> String(NydusSocket)))))
           @@ ("plugins" :> Map(CriPlugin :> Map("containerd" :>
                DeepMerge(DeepMerge(
                    Map(("discard_unpacked_layers" :> Boolean("false"))
                        @@ ("disable_snapshot_annotations" :> Boolean("false"))),
                    defaultSnapshotter), containerdRuntime)))))

\* The return of updateTomlConfig.
UpdReturn(r) ==
    /\ ures' = r
    /\ upc' = "done"

\* os.OpenFile, os.ReadFile, toml.Unmarshal: the configuration, or an error.
UpdRead ==
    /\ upc = "call"
    /\ \/ /\ upc' = "merge"
          /\ UNCHANGED ures
       \/ \E e \in {"open", "read", "unmarshal"} : UpdReturn(e)
    /\ UNCHANGED <<configIn, configFile, runtimeHandler, updatedConfig>>
    /\ UNCHANGED <<wvars, cvars, rvars>>

\* updatedConfig := deepMerge(nydusConfig, config)
UpdMerge ==
    /\ upc = "merge"
    /\ updatedConfig' = DeepMerge(NydusConfig(configFile, runtimeHandler), configFile)
    /\ upc' = "write"
    /\ UNCHANGED <<configIn, configFile, runtimeHandler, ures>>
    /\ UNCHANGED <<wvars, cvars, rvars>>

\* file.Truncate(0), file.Seek(0, 0), encoder.Encode(updatedConfig): a
\* failure after the truncation leaves the file empty.
UpdWrite ==
    /\ upc = "write"
    /\ \/ /\ configFile' = updatedConfig
          /\ UpdReturn("ok")
       \/ /\ UNCHANGED configFile
          /\ UpdReturn("truncate")
       \/ /\ configFile' = Nil
          /\ \E e \in {"seek", "encode"} : UpdReturn(e)
    /\ UNCHANGED <<configIn, runtimeHandler, updatedConfig>>
    /\ UNCHANGED <<wvars, cvars, rvars>>

\* No call of updateTomlConfig.
InitNoUpdate ==
    /\ configIn = Nil
    /\ configFile = Nil
    /\ runtimeHandler = ""
    /\ upc = "done"
    /\ updatedConfig = Nil
    /\ ures = "none"

\* One call of updateTomlConfig on any of the configurations.
InitUpdate ==
    /\ InitCalls
    /\ pre = Absent
    /\ InitCallers
    /\ InitNoResolve
    /\ configIn \in Configs
    /\ configFile = configIn
    /\ runtimeHandler \in RuntimeHandlers
    /\ upc = "call"
    /\ updatedConfig = Nil
    /\ ures = "none"

NextUpdate ==
    \/ UpdRead
    \/ UpdMerge
    \/ UpdWrite

SpecUpdate == InitUpdate /\ [][NextUpdate]_vars

\* ------------------------------------------------------------ the calls
InitWriter == InitCalls /\ InitCallers /\ InitNoResolve /\ InitNoUpdate

NextWriter ==
    \E w \in Writers :
        \/ UnpackScan(w)
        \/ AwOpen(w)
        \/ AwCopy(w)
        \/ AwSync(w)
        \/ AwLink(w)
        \/ AwStage(w)
        \/ AwRename(w)
        \/ AwCleanup(w)

SpecWriter == InitWriter /\ [][NextWriter]_vars

\* The process running a call is terminated inside atomicWrite: no deferred
\* function runs, the kernel closes the descriptor and drops the anonymous
\* inode; the directory stays as it is.
Crash(w) ==
    /\ wpc[w] \in {"open", "copy", "sync", "link", "stage", "rename", "cleanup"}
    /\ wpc' = [wpc EXCEPT ![w] = "crashed"]
    /\ reader' = [reader EXCEPT ![w] = <<>>]
    /\ inode' = [inode EXCEPT ![w] = <<>>]
    /\ tmpPath' = [tmpPath EXCEPT ![w] = 0]
    /\ attempts' = [attempts EXCEPT ![w] = 0]
    /\ UNCHANGED <<fs, wres, pre, cvars, rvars, uvars>>

\* The concurrent Unpack calls, each in a process that can be terminated.
NextCrash ==
    \/ \E w \in Writers : UnpackScan(w)
    \/ \E w \in Writers : AwOpen(w)
    \/ \E w \in Writers : AwCopy(w)
    \/ \E w \in Writers : AwSync(w)
    \/ \E w \in Writers : AwLink(w)
    \/ \E w \in Writers : AwStage(w)
    \/ \E w \in Writers : AwRename(w)
    \/ \E w \in Writers : AwCleanup(w)
    \/ \E w \in Writers : Crash(w)

SpecCrash == InitWriter /\ [][NextCrash]_vars

\* ===================================================== Fetch Coordinator
\* Payload of the metadata file a caller's own sequence writes.
Fetched(c) == EntryData(c, metadataNameInLayer)

\* os.Stat(metadataPath) returns no error.
Exists(p) == meta[p].exists

\* remote.RetryWithPlainHTTP(ref, err): the registry client's verdict on an
\* error, carried by the error itself.
RetryWithPlainHTTP(err) == err.plain

\* The errors of one run of handle(): "get fetcher" and "fetch nydus
\* metadata" (kind fetch), "unpack metadata from layer" (kind unpack).
HandleErrors == [kind : {"fetch", "unpack"}, plain : BOOLEAN]

\* The return of TryFetchMetadata with r; the deferred mu.Unlock() is the
\* step that follows when the gate is held.
Finish(c, r, next) ==
    /\ cres' = [cres EXCEPT ![c] = r]
    /\ cpc' = [cpc EXCEPT ![c] = next]
    /\ runs' = [runs EXCEPT ![c] = 0]

\* The label check that fails, "none" when both pass: the reference label
\* is looked up first, then the manifest digest label is validated.
LabelCheck(hasRef, digestValid) ==
    IF ~hasRef THEN "noref"
    ELSE IF ~digestValid THEN "baddigest"
    ELSE "none"

\* Mutant of TfmValidate: the mutex of the path is obtained before the
\* labels are checked.
TfmValidateGateFirst(c) ==
    /\ cpc[c] = "call"
    /\ \E hasRef \in BOOLEAN, digestValid \in BOOLEAN, p \in Paths :
        IF LabelCheck(hasRef, digestValid) # "none" THEN
            /\ Finish(c, "label", "done")
            /\ how' = [how EXCEPT ![c] = LabelCheck(hasRef, digestValid)]
            /\ gateMap' = [gateMap EXCEPT ![p] =
                    IF @ # 0 THEN @
                    ELSE 1 + Cardinality({q \in Paths : gateMap[q] # 0})]
            /\ UNCHANGED path
        ELSE
            /\ path' = [path EXCEPT ![c] = p]
            /\ cpc' = [cpc EXCEPT ![c] = "getmutex"]
            /\ UNCHANGED <<cres, runs, how, gateMap>>
    /\ UNCHANGED <<meta, holder, mu, wvars, rvars, uvars>>

\* TryFetchMetadata up to getMetadataMutex: the two labels are checked.
TfmValidate(c) ==
    /\ cpc[c] = "call"
    /\ \E hasRef \in BOOLEAN, digestValid \in BOOLEAN, p \in Paths :
        IF LabelCheck(hasRef, digestValid) # "none" THEN
            /\ Finish(c, "label", "done")
            /\ how' = [how EXCEPT ![c] = LabelCheck(hasRef, digestValid)]
            /\ UNCHANGED path
        ELSE
            /\ path' = [path EXCEPT ![c] = p]
            /\ cpc' = [cpc EXCEPT ![c] = "getmutex"]
            /\ UNCHANGED <<cres, runs, how>>
    /\ UNCHANGED <<meta, gateMap, holder, mu, wvars, rvars, uvars>>

\* Filesystem.CheckReferrer up to the call of the manager: referrer
\* detection must be enabled and the two labels must pass, else false.
FsCheckReferrer(c) ==
    /\ cpc[c] = "call"
    /\ \E enabled \in BOOLEAN, hasRef \in BOOLEAN, digestValid \in BOOLEAN :
        IF ~enabled THEN
            /\ Finish(c, "false", "done")
            /\ how' = [how EXCEPT ![c] = "disabled"]
        ELSE IF LabelCheck(hasRef, digestValid) # "none" THEN
            /\ Finish(c, "false", "done")
            /\ how' = [how EXCEPT ![c] = LabelCheck(hasRef, digestValid)]
        ELSE
            /\ cpc' = [cpc EXCEPT ![c] = "check"]
            /\ UNCHANGED <<cres, runs, how>>
    /\ UNCHANGED <<meta, gateMap, holder, path, mu, wvars, rvars, uvars>>

\* fs.referrerMgr.CheckReferrer(ctx, ref, manifestDigest): the resolver
\* answers with a descriptor (true) or an error (false); no gate is taken
\* and nothing is written.
FsCheckResolve(c) ==
    /\ cpc[c] = "check"
    /\ \E found \in BOOLEAN :
        Finish(c, IF found THEN "true" ELSE "false", "done")
    /\ how' = [how EXCEPT ![c] = "resolver"]
    /\ UNCHANGED <<meta, gateMap, holder, path, mu, wvars, rvars, uvars>>

\* Mutant of GetMetadataMutex: an entry that exists is replaced by another
\* lock instead of being handed out again.
GetMetadataMutexReplace(c) ==
    /\ cpc[c] = "getmutex"
    /\ LET p == path[c]
           m == (gateMap[p] % NumPaths) + 1
       IN /\ gateMap' = [gateMap EXCEPT ![p] = m]
          /\ mu' = [mu EXCEPT ![c] = m]
    /\ cpc' = [cpc EXCEPT ![c] = "lock"]
    /\ UNCHANGED <<meta, holder, path, runs, cres, how, wvars, rvars, uvars>>

\* fs.getMetadataMutex(metadataPath): get-or-create, in one atomic step.
GetMetadataMutex(c) ==
    /\ cpc[c] = "getmutex"
    /\ LET p == path[c]
           m == IF gateMap[p] # 0 THEN gateMap[p]
                ELSE 1 + Cardinality({q \in Paths : gateMap[q] # 0})
       IN /\ gateMap' = [gateMap EXCEPT ![p] = m]
          /\ mu' = [mu EXCEPT ![c] = m]
    /\ cpc' = [cpc EXCEPT ![c] = "lock"]
    /\ UNCHANGED <<meta, holder, path, runs, cres, how, wvars, rvars, uvars>>

\* Mutant of Lock: the mutex is taken without waiting for its holder.
LockNoWait(c) ==
    /\ cpc[c] = "lock"
    /\ holder' = [holder EXCEPT ![mu[c]] = c]
    /\ cpc' = [cpc EXCEPT ![c] = "stat"]
    /\ UNCHANGED <<meta, gateMap, path, mu, runs, cres, how, wvars, rvars, uvars>>

\* Mutant of Lock: one lock for every path, the mutex is taken only when no
\* mutex at all is held.
LockAllFree(c) ==
    /\ cpc[c] = "lock"
    /\ \A p \in Paths : gateMap[p] # 0 => holder[gateMap[p]] = 0
    /\ holder' = [holder EXCEPT ![mu[c]] = c]
    /\ cpc' = [cpc EXCEPT ![c] = "stat"]
    /\ UNCHANGED <<meta, gateMap, path, mu, runs, cres, how, wvars, rvars, uvars>>

\* mu.Lock()
Lock(c) ==
    /\ cpc[c] = "lock"
    /\ holder[mu[c]] = 0
    /\ holder' = [holder EXCEPT ![mu[c]] = c]
    /\ cpc' = [cpc EXCEPT ![c] = "stat"]
    /\ UNCHANGED <<meta, gateMap, path, mu, runs, cres, how, wvars, rvars, uvars>>

\* Mutant of Stat: the existence check is skipped.
StatSkipped(c) ==
    /\ cpc[c] = "stat"
    /\ cpc' = [cpc EXCEPT ![c] = "resolve"]
    /\ UNCHANGED <<meta, gateMap, holder, path, mu, runs, cres, how, wvars, rvars, uvars>>

\* Mutant of Stat: an existing destination is reported as an error.
StatExistsIsError(c) ==
    /\ cpc[c] = "stat"
    /\ IF Exists(path[c])
       THEN /\ Finish(c, "err", "unlock")
            /\ UNCHANGED how
       ELSE /\ cpc' = [cpc EXCEPT ![c] = "resolve"]
            /\ UNCHANGED <<cres, runs, how>>
    /\ UNCHANGED <<meta, gateMap, holder, path, mu, wvars, rvars, uvars>>

\* if _, err := os.Stat(metadataPath); err == nil { return nil }
Stat(c) ==
    /\ cpc[c] = "stat"
    /\ IF Exists(path[c])
       THEN /\ Finish(c, "ok", "unlock")
            /\ how' = [how EXCEPT ![c] = "shortcut"]
       ELSE /\ cpc' = [cpc EXCEPT ![c] = "resolve"]
            /\ UNCHANGED <<cres, runs, how>>
    /\ UNCHANGED <<meta, gateMap, holder, path, mu, wvars, rvars, uvars>>

\* referrerMgr.TryFetchMetadata, first half: the Referrer Resolver gives the
\* descriptor of the metadata layer, or fails.
MgrCheckReferrer(c) ==
    /\ cpc[c] = "resolve"
    /\ \/ /\ cpc' = [cpc EXCEPT ![c] = "fetch"]
          /\ UNCHANGED <<cres, runs>>
       \/ Finish(c, "err", "unlock")
    /\ UNCHANGED <<meta, gateMap, holder, path, mu, how, wvars, rvars, uvars>>

\* Mutant of HandleFailed: handle() is run again after every error the
\* client classifies, not only after the first run.
HandleFailedRetryAgain(c, err, n) ==
    IF RetryWithPlainHTTP(err)
    THEN /\ cpc' = [cpc EXCEPT ![c] = "fetch"]
         /\ runs' = [runs EXCEPT ![c] = n]
         /\ UNCHANGED cres
    ELSE Finish(c, IF err.kind = "unpack" THEN "unpack" ELSE "err", "unlock")

\* Mutant of HandleFailed: the error return skips the Unlock.
HandleFailedNoUnlock(c, err, n) ==
    IF n = 1 /\ RetryWithPlainHTTP(err)
    THEN /\ cpc' = [cpc EXCEPT ![c] = "fetch"]
         /\ runs' = [runs EXCEPT ![c] = n]
         /\ UNCHANGED cres
    ELSE Finish(c, IF err.kind = "unpack" THEN "unpack" ELSE "err", "done")

\* The end of a failed run of handle(), the n-th of the call: fetchMetadata
\* runs handle() once more when this was the first run and the client asks
\* for plain HTTP, else the error is returned.
HandleFailed(c, err, n) ==
    IF n = 1 /\ RetryWithPlainHTTP(err)
    THEN /\ cpc' = [cpc EXCEPT ![c] = "fetch"]
         /\ runs' = [runs EXCEPT ![c] = n]
         /\ UNCHANGED cres
    ELSE Finish(c, IF err.kind = "unpack" THEN "unpack" ELSE "err", "unlock")

\* handle() of fetchMetadata up to the Unpack call: resolver.Fetcher and
\* fetcher.Fetch(ctx, desc).
FmFetch(c) ==
    /\ cpc[c] = "fetch"
    /\ \/ /\ runs' = [runs EXCEPT ![c] = @ + 1]
          /\ cpc' = [cpc EXCEPT ![c] = "unpack"]
          /\ UNCHANGED cres
       \/ \E err \in HandleErrors :
          /\ err.kind = "fetch"
          /\ HandleFailed(c, err, runs[c] + 1)
    /\ UNCHANGED <<meta, gateMap, holder, path, mu, how, wvars, rvars, uvars>>

\* Mutant of FmUnpack: os.Remove(metadataPath) runs on success too.
FmUnpackRemoveAlways(c) ==
    /\ cpc[c] = "unpack"
    /\ meta' = [meta EXCEPT ![path[c]] = Absent]
    /\ \/ /\ Finish(c, "ok", "unlock")
          /\ how' = [how EXCEPT ![c] = "sequence"]
       \/ \E err \in HandleErrors :
          /\ err.kind = "unpack"
          /\ HandleFailed(c, err, runs[c])
          /\ UNCHANGED how
    /\ UNCHANGED <<gateMap, holder, path, mu, wvars, rvars, uvars>>

\* Mutant of FmUnpack: the file is written in place and a failed write is
\* left where it is.
FmUnpackInPlace(c) ==
    /\ cpc[c] = "unpack"
    /\ \/ /\ meta' = [meta EXCEPT ![path[c]] = File(Fetched(c))]
          /\ Finish(c, "ok", "unlock")
          /\ how' = [how EXCEPT ![c] = "sequence"]
       \/ \E err \in HandleErrors :
          /\ err.kind = "unpack"
          /\ meta' = [meta EXCEPT ![path[c]] = File(SubSeq(Fetched(c), 1, 1))]
          /\ HandleFailed(c, err, runs[c])
          /\ UNCHANGED how
    /\ UNCHANGED <<gateMap, holder, path, mu, wvars, rvars, uvars>>

\* remote.Unpack(rc, metadataNameInLayer, metadataPath) run by the holder of
\* the path's gate, and os.Remove(metadataPath) when it fails.
FmUnpack(c) ==
    /\ cpc[c] = "unpack"
    /\ \/ /\ meta' = [meta EXCEPT ![path[c]] = File(Fetched(c))]
          /\ Finish(c, "ok", "unlock")
          /\ how' = [how EXCEPT ![c] = "sequence"]
       \/ \E err \in HandleErrors :
          /\ err.kind = "unpack"
          /\ meta' = [meta EXCEPT ![path[c]] = Absent]
          /\ HandleFailed(c, err, runs[c])
          /\ UNCHANGED how
    /\ UNCHANGED <<gateMap, holder, path, mu, wvars, rvars, uvars>>

\* defer mu.Unlock(), and the return of TryFetchMetadata.
Unlock(c) ==
    /\ cpc[c] = "unlock"
    /\ holder' = [holder EXCEPT ![mu[c]] = 0]
    /\ cpc' = [cpc EXCEPT ![c] = "done"]
    /\ UNCHANGED <<meta, gateMap, path, mu, runs, cres, how, wvars, rvars, uvars>>

Init == InitCallers /\ InitCalls /\ pre = Absent /\ InitNoResolve /\ InitNoUpdate

Next ==
    \E c \in Callers :
        \/ TfmValidate(c)
        \/ GetMetadataMutex(c)
        \/ Lock(c)
        \/ Stat(c)
        \/ MgrCheckReferrer(c)
        \/ FmFetch(c)
        \/ FmUnpack(c)
        \/ Unlock(c)

Spec == Init /\ [][Next]_vars

\* The callers call TryFetchMetadata or Filesystem.CheckReferrer, as the
\* snapshotter does for the layers of an image.
NextLabels ==
    \E c \in Callers :
        \/ TfmValidate(c)
        \/ FsCheckReferrer(c)
        \/ FsCheckResolve(c)
        \/ GetMetadataMutex(c)
        \/ Lock(c)
        \/ Stat(c)
        \/ MgrCheckReferrer(c)
        \/ FmFetch(c)
        \/ FmUnpack(c)
        \/ Unlock(c)

SpecLabels == Init /\ [][NextLabels]_vars

\* The same callers calling in sequence: a call starts when the calls
\* before it have returned.
Turn(c) == \A d \in Callers : d < c => cpc[d] = "done"

NextSeq ==
    \E c \in Callers :
        \/ Turn(c) /\ TfmValidate(c)
        \/ Turn(c) /\ GetMetadataMutex(c)
        \/ Turn(c) /\ Lock(c)
        \/ Turn(c) /\ Stat(c)
        \/ Turn(c) /\ MgrCheckReferrer(c)
        \/ Turn(c) /\ FmFetch(c)
        \/ Turn(c) /\ FmUnpack(c)
        \/ Turn(c) /\ Unlock(c)

SpecSeq == Init /\ [][NextSeq]_vars

\* Fair scheduling: a caller that can take a step eventually takes one.
\* Every registry and file operation of the model is a single step, so it
\* terminates.
CallerStep(c) ==
    \/ TfmValidate(c)
    \/ GetMetadataMutex(c)
    \/ Lock(c)
    \/ Stat(c)
    \/ MgrCheckReferrer(c)
    \/ FmFetch(c)
    \/ FmUnpack(c)
    \/ Unlock(c)

SpecFair == Init /\ [][Next]_vars /\ \A c \in Callers : WF_vars(CallerStep(c))

\* ===================================================== Referrer Resolver
\* Mutant of StdFail: a "get fetcher" error of the standard path is
\* returned by handle().
StdFailHardFetcher(err) ==
    IF err.msg = "get fetcher"
    THEN /\ stdErr' = err
         /\ rerr' = err
         /\ rpc' = "return"
         /\ UNCHANGED rdesc
    ELSE /\ stdErr' = err
         /\ rpc' = "split"
         /\ UNCHANGED <<rdesc, rerr>>

\* checkReferrerStandard returned err: handle() goes on to the tag-based path.
StdFail(err) ==
    /\ stdErr' = err
    /\ rpc' = "split"
    /\ UNCHANGED <<rdesc, rerr>>

\* checkReferrerStandard up to the parsed referrer index: Fetcher,
\* FetchReferrers, ReadAll, Unmarshal, and the empty-list check.
RStdList ==
    /\ rpc = "standard"
    /\ \/ \E err \in Errors({"get fetcher", "fetch referrers", "read referrers",
                             "unmarshal referrers index"}) :
            /\ StdFail(err)
            /\ oversize' = FALSE
            /\ UNCHANGED index
       \/ \E body \in Bodies :
            /\ oversize' = (body.size > maxManifestIndexSize)
            /\ IF ~Unmarshals(body)
               THEN /\ \E err \in Errors({"unmarshal referrers index"}) : StdFail(err)
                    /\ UNCHANGED index
               ELSE IF Len(body.index) = 0
               THEN /\ \E err \in Errors({"empty referrer list"}) : StdFail(err)
                    /\ UNCHANGED index
               ELSE /\ index' = body.index
                    /\ rpc' = "manifest"
                    /\ UNCHANGED <<stdErr, rdesc, rerr>>
    /\ UNCHANGED <<ref, suffixes, rpass, cand, manifest, idx, tagRan, tried, wvars, cvars, uvars>>

\* Mutant of RStdManifest: the last listed manifest is fetched, as the
\* comment above the Fetch call says.
RStdManifestLastListed ==
    /\ rpc = "manifest"
    /\ \/ \E err \in Errors({"fetch referrers", "read manifest", "unmarshal manifest"}) :
            StdFail(err)
       \/ \E m \in Manifests :
            IF Len(m.layers) < 1
            THEN \E err \in Errors({"invalid manifest"}) : StdFail(err)
            ELSE IF ~IsNydusMetaLayer(m.layers[Len(m.layers)])
            THEN \E err \in Errors({"invalid nydus manifest"}) : StdFail(err)
            ELSE /\ rdesc' = Desc("standard", index[Len(index)], <<>>, m)
                 /\ rerr' = NoErr
                 /\ rpc' = "return"
                 /\ UNCHANGED stdErr
    /\ index' = <<>>
    /\ oversize' = FALSE
    /\ UNCHANGED <<ref, suffixes, rpass, cand, manifest, idx, tagRan, tried, wvars, cvars, uvars>>

\* checkReferrerStandard from fetcher.Fetch(ctx, index.Manifests[0]) on.
RStdManifest ==
    /\ rpc = "manifest"
    /\ \/ \E err \in Errors({"fetch referrers", "read manifest", "unmarshal manifest"}) :
            StdFail(err)
       \/ \E m \in Manifests :
            IF Len(m.layers) < 1
            THEN \E err \in Errors({"invalid manifest"}) : StdFail(err)
            ELSE IF ~IsNydusMetaLayer(m.layers[Len(m.layers)])
            THEN \E err \in Errors({"invalid nydus manifest"}) : StdFail(err)
            ELSE /\ rdesc' = Desc("standard", index[1], <<>>, m)
                 /\ rerr' = NoErr
                 /\ rpc' = "return"
                 /\ UNCHANGED stdErr
    /\ index' = <<>>
    /\ oversize' = FALSE
    /\ UNCHANGED <<ref, suffixes, rpass, cand, manifest, idx, tagRan, tried, wvars, cvars, uvars>>

\* checkReferrerTagBased up to the loop: the split of ref.
RTagSplit ==
    /\ rpc = "split"
    /\ tagRan' = TRUE
    /\ IF Len(Split(ref, ":")) < 2
       THEN /\ \E err \in Errors({"invalid reference format"}) : rerr' = err
            /\ rpc' = "return"
            /\ UNCHANGED idx
       ELSE /\ idx' = 1
            /\ rpc' = "cand"
            /\ UNCHANGED rerr
    /\ oversize' = FALSE
    /\ UNCHANGED <<ref, suffixes, rpass, index, cand, manifest, stdErr, rdesc, tried, wvars, cvars, uvars>>

\* The head of the loop over the suffixes and validateTagBasedReferrer up
\* to the parsed manifest: Resolve, Fetcher, Fetch, ReadAll, Unmarshal.
RTagCandidate ==
    /\ rpc = "cand"
    /\ IF idx > Len(suffixes)
       THEN /\ \E err \in Errors({"no tag-based referrer found"}) : rerr' = err
            /\ rpc' = "return"
            /\ UNCHANGED <<cand, manifest, idx, tried>>
       ELSE /\ cand' = CandidateRef(ref, suffixes[idx])
            /\ tried' = Append(tried, cand')
            /\ \/ /\ manifest' = NoManifest
                  /\ idx' = idx + 1
                  /\ UNCHANGED rpc
               \/ \E m \in Manifests :
                  /\ manifest' = m
                  /\ rpc' = "validate"
                  /\ UNCHANGED idx
            /\ UNCHANGED rerr
    /\ UNCHANGED <<ref, suffixes, rpass, index, stdErr, tagRan, rdesc, oversize, wvars, cvars, uvars>>

\* Mutant of ValidateError: the subject of the manifest is not checked.
ValidateErrorNoSubject(m, expectedSubject) ==
    IF Len(m.layers) < 1 THEN "invalid manifest"
    ELSE IF ~IsNydusMetaLayer(m.layers[Len(m.layers)]) THEN "not a nydus manifest"
    ELSE ""

\* What validateTagBasedReferrer returns for a parsed manifest.
ValidateError(m, expectedSubject) ==
    IF m.subject = "none" \/ m.subject # expectedSubject
    THEN "not a referrer for expected subject"
    ELSE IF Len(m.layers) < 1 THEN "invalid manifest"
    ELSE IF ~IsNydusMetaLayer(m.layers[Len(m.layers)]) THEN "not a nydus manifest"
    ELSE ""

\* Mutant of RTagValidate: a rejected candidate does not advance the loop.
RTagValidateNoAdvance ==
    /\ rpc = "validate"
    /\ IF ValidateError(manifest, Expected) = ""
       THEN /\ rdesc' = Desc("tag", 0, cand, manifest)
            /\ rerr' = NoErr
            /\ rpc' = "return"
            /\ UNCHANGED idx
       ELSE /\ rpc' = "cand"
            /\ UNCHANGED <<idx, rdesc, rerr>>
    /\ UNCHANGED <<ref, suffixes, rpass, index, cand, manifest, stdErr, tagRan, tried, oversize, wvars, cvars, uvars>>

\* validateTagBasedReferrer from the subject check on, and the loop's
\* "if err == nil && desc != nil { return desc, nil }".
RTagValidate ==
    /\ rpc = "validate"
    /\ IF ValidateError(manifest, Expected) = ""
       THEN /\ rdesc' = Desc("tag", 0, cand, manifest)
            /\ rerr' = NoErr
            /\ rpc' = "return"
            /\ UNCHANGED idx
       ELSE /\ idx' = idx + 1
            /\ rpc' = "cand"
            /\ UNCHANGED <<rdesc, rerr>>
    /\ UNCHANGED <<ref, suffixes, rpass, index, cand, manifest, stdErr, tagRan, tried, oversize, wvars, cvars, uvars>>

\* desc, err := handle(); if err != nil && RetryWithPlainHTTP(ref, err)
\* { return handle() }; return desc, err
RReturn ==
    /\ rpc = "return"
    /\ IF rpass = 1 /\ rerr # NoErr /\ RetryWithPlainHTTP(rerr)
       THEN /\ rpass' = 2
            /\ rpc' = "standard"
            /\ cand' = <<>>
            /\ manifest' = NoManifest
            /\ idx' = 0
            /\ stdErr' = NoErr
            /\ tagRan' = FALSE
            /\ tried' = <<>>
            /\ rdesc' = NoDesc
            /\ rerr' = NoErr
       ELSE /\ rpc' = "done"
            /\ UNCHANGED <<rpass, cand, manifest, idx, stdErr, tagRan, tried, rdesc, rerr>>
    /\ UNCHANGED <<ref, suffixes, index, oversize, wvars, cvars, uvars>>

\* One checkReferrer(ctx, ref, manifestDigest) call of a referrer built
\* with any suffix list.
InitResolve ==
    /\ InitNoUpdate
    /\ InitCalls
    /\ pre = Absent
    /\ InitCallers
    /\ ref \in Refs
    /\ suffixes \in SuffixLists
    /\ rpc = "standard"
    /\ rpass = 1
    /\ index = <<>>
    /\ cand = <<>>
    /\ manifest = NoManifest
    /\ idx = 0
    /\ stdErr = NoErr
    /\ tagRan = FALSE
    /\ tried = <<>>
    /\ oversize = FALSE
    /\ rdesc = NoDesc
    /\ rerr = NoErr

NextResolve ==
    \/ RStdList
    \/ RStdManifest
    \/ RTagSplit
    \/ RTagCandidate
    \/ RTagValidate
    \/ RReturn

SpecResolve == InitResolve /\ [][NextResolve]_vars

\* =============================================================== claims
Payload(w) == EntryData(w, metadataNameInLayer)
CompleteWrites == {File(Payload(w)) : w \in Writers}
AllReturned == \A w \in Writers : wpc[w] = "done"
Failed(w) == wpc[w] = "done" /\ wres[w] # "ok"

\* C3: in every reachable state of concurrent Unpack calls on one target,
\* whatever failed, the target is absent, holds the content it had before
\* the calls, or holds the complete bytes of one call's entry.
C3_TargetNeverPartial ==
    fs[TargetName] \in {Absent, pre} \cup CompleteWrites

\* C3 witness: one call has failed, a second is between its staging link and
\* its rename, and the target holds a third call's complete entry.
C3_Witness ==
    \E w1, w2, w3 \in Writers :
        /\ Failed(w1)
        /\ wpc[w2] = "rename"
        /\ w3 \notin {w1, w2}
        /\ fs[TargetName] = File(Payload(w3))

\* C4: the step on which a call's outcome becomes success leaves the target
\* holding exactly the bytes of that call's entry named entryName.
C4_SuccessHoldsEntryBytes ==
    [][\A w \in Writers :
        (wres[w] # "ok" /\ wres'[w] = "ok") => fs'[TargetName] = File(Payload(w))]_vars

\* C5: when a call has returned an error, the target does not hold bytes of
\* that call: it is absent or holds what others (or nobody) left there.
C5_FailureLeavesTarget ==
    \A w \in Writers :
        Failed(w) => \A i \in DOMAIN fs[TargetName].data : fs[TargetName].data[i][1] # w

\* C6: when the target existed with old content and all the racing calls
\* have returned, the target exists and holds the old content or one call's
\* complete entry.
C6_FinalIsOneCompleteWrite ==
    (AllReturned /\ pre.exists) =>
        /\ fs[TargetName].exists
        /\ fs[TargetName] \in {pre} \cup CompleteWrites

\* C6 witness: the target existed, every call has returned, two of them with
\* success through the rename, and the target holds a new entry.
C6_Witness ==
    /\ AllReturned
    /\ pre.exists
    /\ \E w1, w2 \in Writers : w1 # w2 /\ wres[w1] = "ok" /\ wres[w2] = "ok"
    /\ fs[TargetName] # pre

\* ------------------------------------------------- Fetch Coordinator
\* A caller is between acquiring the gate of its path and releasing it.
InGate(c) == cpc[c] \in {"stat", "resolve", "fetch", "unpack", "unlock"}
\* A caller is in the resolve / fetch / write sequence.
InSequence(c) == cpc[c] \in {"resolve", "fetch", "unpack"}
OnPath(p) == {c \in Callers : path[c] = p}
Sequences(p) == {c \in OnPath(p) : how[c] = "sequence"}

\* C1: at most one caller at a time is between acquiring and releasing the
\* gate of a destination path.
C1_OneCallerInGate ==
    \A c1, c2 \in Callers :
        (c1 # c2 /\ InGate(c1) /\ InGate(c2)) => path[c1] # path[c2]

\* C1 witness: one caller writes the file under the gate while another
\* caller of the same path waits for the gate.
C1_Witness ==
    \E c1, c2 \in Callers :
        /\ c1 # c2
        /\ path[c1] = path[c2]
        /\ cpc[c1] = "unpack"
        /\ cpc[c2] = "lock"

\* C2 as stated: when all the calls made for a path have returned, exactly
\* one resolve-fetch-write sequence succeeded, every call returned success
\* and the file holds that sequence's output.
C2_ExactlyOneSequenceAllSucceed ==
    \A p \in Paths :
        (OnPath(p) # {} /\ \A c \in OnPath(p) : cpc[c] = "done") =>
            /\ Cardinality(Sequences(p)) = 1
            /\ \A c \in OnPath(p) : cres[c] = "ok"
            /\ \A s \in Sequences(p) : meta[p] = File(Fetched(s))

\* C2 amended: for each path at most one sequence succeeds; a call returns
\* success only when one has, and the file then holds exactly that
\* sequence's output; while none has succeeded the file is absent.
C2_AtMostOneSequence ==
    \A p \in Paths :
        /\ Cardinality(Sequences(p)) <= 1
        /\ \A c \in OnPath(p) : cres[c] = "ok" => Sequences(p) # {}
        /\ \A s \in Sequences(p) : meta[p] = File(Fetched(s))
        /\ Sequences(p) = {} => ~Exists(p)

\* C2 witness: every caller called for the same path and returned success,
\* one through its own sequence and the others through the short-circuit.
C2_Witness ==
    \E p \in Paths :
        /\ OnPath(p) = Callers
        /\ \A c \in Callers : cpc[c] = "done" /\ cres[c] = "ok"
        /\ Cardinality(Sequences(p)) = 1

\* C7 as stated: of two calls in sequence for the same path the second does
\* no network I/O and returns success through the short-circuit.
C7_SecondCallNoNetwork ==
    \A c1, c2 \in Callers :
        (c1 < c2 /\ path[c1] = path[c2] /\ path[c2] # 0) =>
            /\ ~InSequence(c2)
            /\ cpc[c2] \in {"unlock", "done"} => (cres[c2] = "ok" /\ how[c2] = "shortcut")

\* C7 amended: when the first of two calls in sequence for the same path
\* returned success, the second does no network I/O and returns success
\* through the short-circuit.
C7_SecondCallAfterSuccess ==
    \A c1, c2 \in Callers :
        (c1 < c2 /\ path[c1] = path[c2] /\ path[c2] # 0 /\ cres[c1] = "ok") =>
            /\ ~InSequence(c2)
            /\ cpc[c2] \in {"unlock", "done"} => (cres[c2] = "ok" /\ how[c2] = "shortcut")

\* C7 witness: the first call ran the sequence, the second returned through
\* the short-circuit.
C7_Witness ==
    \E c1, c2 \in Callers :
        /\ c1 < c2
        /\ path[c1] = path[c2]
        /\ how[c1] = "sequence"
        /\ cpc[c2] = "done"
        /\ how[c2] = "shortcut"

\* C8: a caller that finds destPath present inside the gate returns success
\* from there - it never enters resolve or fetch - and the file stays as it
\* is up to the return.
C8_ExistingDestShortCircuits ==
    [][\A c \in Callers :
        /\ (cpc[c] = "stat" /\ cpc'[c] # "stat" /\ Exists(path[c])) =>
              (cpc'[c] = "unlock" /\ cres'[c] = "ok" /\ how'[c] = "shortcut" /\ meta' = meta)
        /\ how[c] = "shortcut" =>
              /\ cpc'[c] \in {"unlock", "done"}
              /\ cres'[c] = "ok"
              /\ runs'[c] = 0
              /\ meta'[path[c]] = meta[path[c]]]_vars

\* C8 witness: a caller returned through the short-circuit.
C8_Witness ==
    \E c \in Callers : cpc[c] = "done" /\ how[c] = "shortcut" /\ Exists(path[c])

\* ------------------------------------------------- Referrer Resolver
\* C9: a descriptor returned by the tag-based path is a layer of a manifest
\* whose subject is the expected digest; a candidate manifest whose subject
\* is missing or different is rejected and the loop moves to the next
\* suffix, whatever its layers carry.
C9_TagDescriptorHasExpectedSubject ==
    [][/\ rdesc'.via = "tag" => rdesc'.manifest.subject = Expected
       /\ (rpc = "validate" /\ manifest.subject # Expected) =>
              (rdesc' = NoDesc /\ rpc' = "cand" /\ idx' = idx + 1)]_vars

\* C9 witness: a candidate manifest with another subject, whose last layer
\* carries the marker, has just been rejected.
C9_Witness ==
    /\ rpc = "cand"
    /\ idx = 2
    /\ manifest.subject = "other"
    /\ Len(manifest.layers) >= 1
    /\ IsNydusMetaLayer(manifest.layers[Len(manifest.layers)])
    /\ rdesc = NoDesc

\* C10: in one run of handle() the tag-based path is called if and only if
\* the standard path returned an error, and that error is never what
\* handle() returns.
C10_FallbackIffStandardFailed ==
    /\ tagRan => stdErr # NoErr
    /\ rpc \in {"split", "cand", "validate"} => stdErr # NoErr
    /\ (stdErr # NoErr /\ rpc \in {"return", "done"}) => tagRan
    /\ rdesc.via = "standard" => (stdErr = NoErr /\ ~tagRan)
    /\ rerr # NoErr =>
          /\ tagRan
          /\ rerr.msg \in {"invalid reference format", "no tag-based referrer found"}

\* C10 witness: the listed manifest's last layer lacked the marker, the
\* fallback ran and its descriptor was returned.
C10_Witness ==
    /\ rpc = "done"
    /\ stdErr.msg = "invalid nydus manifest"
    /\ tagRan
    /\ rdesc.via = "tag"

C12_CandidatesInOrderFirstWins ==
    /\ Len(tried) <= Len(suffixes)
    /\ \A i \in DOMAIN tried : tried[i] = CandidateRef(ref, suffixes[i])
    /\ rpc \in {"cand", "validate"} => Len(tried) = (IF rpc = "cand" THEN idx - 1 ELSE idx)
    /\ rdesc.via = "tag" =>
          /\ rpc \in {"return", "done"}
          /\ tried # <<>>
          /\ rdesc.cand = tried[Len(tried)]
          /\ ValidateError(rdesc.manifest, Expected) = ""
          /\ rdesc.layer = Len(rdesc.manifest.layers)

\* C12 witness: the candidate of the first of two different suffixes won and
\* the candidate of the second was never resolved.
C12_Witness ==
    /\ rpc = "done"
    /\ rdesc.via = "tag"
    /\ Len(suffixes) = 2
    /\ suffixes[1] # suffixes[2]
    /\ tried = <<CandidateRef(ref, suffixes[1])>>

\* C13: handle() returns the not-found error only when the standard path
\* failed and every candidate was tried without a descriptor; a run that
\* ends with candidates left ended by a descriptor; and with an empty
\* suffix list the tag-based path returns not-found with nothing resolved.
NotFound == "no tag-based referrer found"

C13_NotFoundOnlyOnExhaustion ==
    /\ rerr.msg = NotFound =>
          (stdErr # NoErr /\ Len(tried) = Len(suffixes) /\ rdesc = NoDesc)
    /\ (rpc \in {"return", "done"} /\ tried # <<>> /\ Len(tried) < Len(suffixes)) =>
          rdesc.via = "tag"
    /\ (rpc \in {"return", "done"} /\ tagRan /\ suffixes = <<>>) =>
          (rerr.msg = NotFound /\ tried = <<>>)

\* C14: when the first run of handle() failed and a step of it failed with
\* an error that RetryWithPlainHTTP classifies for the retry, checkReferrer
\* does not return before a second run; the second run starts the whole resolution afresh;
\* there is no third run.
C14_BlanketRetryOnce ==
    /\ (rpc = "done" /\ rpass = 1 /\ rerr # NoErr) => ~RetryWithPlainHTTP(stdErr)
    /\ rpass \in {1, 2}
    /\ (rpass = 2 /\ rpc = "standard") =>
          (stdErr = NoErr /\ ~tagRan /\ tried = <<>> /\ rdesc = NoDesc)

\* C15: a caller that returned holds no gate, whatever it returned; and
\* under fair scheduling a caller waiting for the gate of its path
\* eventually holds it.
C15_GateReleasedAndAcquired ==
    \A c \in Callers :
        /\ [](cpc[c] = "done" => \A m \in DOMAIN holder : holder[m] # c)
        /\ (cpc[c] = "lock") ~> (cpc[c] = "stat")

\* C15 witness: a call that passed validation returned an error and another
\* caller of the same path is inside the gate, resolving again.
C15_Witness ==
    \E c1, c2 \in Callers :
        /\ c1 # c2
        /\ path[c1] = path[c2]
        /\ cpc[c1] = "done"
        /\ cres[c1] = "err"
        /\ cpc[c2] = "resolve"

\* C16 as stated: a step in which the Unpack of a caller fails leaves
\* destPath absent and makes the call return the error; and a destPath that
\* is present holds the complete payload written by one caller's sequence.
WriterFailed(c) == cpc[c] = "unpack" /\ cpc'[c] # "unpack" /\ how'[c] # "sequence"

C17_MissingEntryTouchesNothing ==
    [][\A w \in Writers :
        /\ (wpc[w] = "call" /\ wpc'[w] # "call") =>
              \/ wpc'[w] = "open" /\ reader'[w] = Payload(w)
              \/ /\ wpc'[w] = "done"
                 /\ wres'[w] \in {"decompress", "tar", "notfound"}
                 /\ fs' = fs
        /\ (wres[w] # "notfound" /\ wres'[w] = "notfound") =>
              (wpc[w] = "call" /\ fs' = fs)]_vars

\* C17 witness: a call returned not-found and the directory of the absent
\* target is empty.
C17_Witness ==
    /\ pre = Absent
    /\ \E w \in Writers : wpc[w] = "done" /\ wres[w] = "notfound"
    /\ \A n \in Names : fs[n] = Absent

\* ------------------------------------------------- fallback candidates
\* C18: for a reference with a tag the candidates resolved are
\* repository:tag+suffix for the suffixes in their order, the digest of the
\* reference dropped.
C18_CandidatesOfTaggedReference ==
    HasTag(ref) =>
        \A i \in DOMAIN tried : tried[i] = ExpectedCandidate(ref, suffixes[i])

\* C19: for a digest-only reference the tag-based path returns a hard error
\* and no candidate is built or resolved.
C19_DigestOnlyIsHardError ==
    (HasDigest(ref) /\ ~HasTag(ref)) =>
        /\ tried = <<>>
        /\ cand = <<>>
        /\ (tagRan /\ rpc \in {"return", "done"}) => rerr.msg = "invalid reference format"

\* C20: for a reference with neither tag nor digest the tag-based path
\* resolves repository:latest+suffix for the suffixes in their order.
C20_UntaggedUsesLatest ==
    (~HasDigest(ref) /\ ~HasTag(ref)) =>
        /\ \A i \in DOMAIN tried : tried[i] = ExpectedCandidate(ref, suffixes[i])
        /\ rerr.msg # "invalid reference format"
        /\ (rpc \in {"return", "done"} /\ tagRan /\ rdesc = NoDesc) =>
              Len(tried) = Len(suffixes)

\* --------------------------------------------------------- atomicWrite
\* C21: after the process of a call was terminated inside atomicWrite, no
\* staging name of the directory holds bytes staged by that call and the
\* target is not a partial file.
C21_CrashLeavesNothing ==
    \A w \in Writers :
        wpc[w] = "crashed" =>
            /\ \A s \in Salts :
                  \A i \in DOMAIN fs[s].data : fs[s].data[i][1] # w
            /\ fs[TargetName] \in {Absent, pre} \cup CompleteWrites

\* ------------------------------------------------- Referrer Resolver
\* C22: a referrer index response larger than the cap makes handle() return
\* an error from the standard path at once: the response is not parsed and
\* the tag-based path does not run for it.
C22_OversizeIndexIsHardError ==
    [][(rpc = "standard" /\ rpc' # "standard" /\ oversize') =>
          (rpc' = "return" /\ rerr' # NoErr /\ index' = <<>>)]_vars

SecondRun(c) ==
    \/ cpc[c] = "fetch" /\ runs[c] = 1
    \/ cpc[c] = "unpack" /\ runs[c] = 2

PathFree(c) == \A d \in Callers \ {c} : InGate(d) => path[d] # path[c]

\* C24: callers of different destination paths never block one another:
\* a caller that has not returned, and whose path has no other caller inside
\* its gate, can always take its next step (acquire its gate, go on inside
\* it, return), whatever the callers of other paths hold.
C24_OtherPathsNeverBlock ==
    \A c \in Callers :
        (cpc[c] # "done" /\ PathFree(c)) => ENABLED CallerStep(c)

\* C24 witness: two callers of different paths are writing inside their
\* gates at the same time, while a third caller is about to lock.
C24_Witness ==
    \E c1, c2 \in Callers :
        /\ path[c1] # path[c2]
        /\ cpc[c1] = "unpack"
        /\ cpc[c2] = "lock" /\ PathFree(c2)

\* Every caller that asked for the gate of a path holds the lock object the
\* gate map has for that path.
SameLock ==
    \A c \in Callers : mu[c] # 0 => mu[c] = gateMap[path[c]]

\* C25: the gate map has one lock per destination path, all callers that
\* asked for the gate of the same path hold the same lock object, and an
\* entry of the map is never removed or replaced.
C25_OneLockPerPathForever ==
    [][/\ \A p \in Paths : gateMap[p] # 0 => gateMap'[p] = gateMap[p]
       /\ SameLock'
       /\ \A c1, c2 \in Callers :
            (mu'[c1] # 0 /\ mu'[c2] # 0 /\ path'[c1] = path'[c2])
                => mu'[c1] = mu'[c2]]_vars

\* C25 witness: two callers of the same path have both asked for its gate
\* before either of them locked it, and hold the same lock object.
C25_Witness ==
    \E c1, c2 \in Callers :
        /\ c1 # c2
        /\ path[c1] = path[c2]
        /\ cpc[c1] = "lock" /\ cpc[c2] = "lock"
        /\ mu[c1] # 0 /\ mu[c1] = mu[c2]

\* ---------------------------------------------- atomicWrite, the fallback
\* C26: a direct link that fails because the target exists is not returned:
\* the call goes on to the staging name, and the rename that makes the call
\* a success leaves the target holding this call's bytes; a call that ends
\* at the direct link ends with success or the link's error and no staging
\* name was created.
C26_ExistingTargetIsReplaced ==
    [][\A w \in Writers :
        /\ (wpc[w] = "link" /\ wpc'[w] = "stage") =>
              (fs[TargetName].exists /\ wres'[w] = "none")
        /\ (wpc[w] = "link" /\ wpc'[w] = "done") =>
              (wres'[w] \in {"ok", "link"} /\ \A s \in Salts : fs'[s] = fs[s])
        /\ (wpc[w] = "rename" /\ wres'[w] = "ok") =>
              fs'[TargetName] = File(Payload(w))]_vars

\* C27: a step of a call gives a name to data only from the direct link, the
\* staging link or the rename, with every byte of the entry in the staged
\* inode; the direct link is reached only by a sync that succeeded, the sync
\* only by a copy that succeeded; a call whose copy or sync fails returns
\* on that step and the directory is left as it was.
C27_NoNameBeforeCopyAndSync ==
    [][\A w \in Writers :
        /\ (wpc'[w] # wpc[w] /\ \E n \in Names : fs'[n] # fs[n] /\ fs'[n].exists) =>
              /\ wpc[w] \in {"link", "stage", "rename"}
              /\ inode[w] = reader[w]
              /\ Len(inode[w]) = EntryLen
        /\ (wpc'[w] = "link" /\ wpc[w] # "link") => wpc[w] = "sync"
        /\ (wpc'[w] = "sync" /\ wpc[w] # "sync") =>
              (wpc[w] = "copy" /\ inode'[w] = reader[w])
        /\ (wpc[w] \in {"copy", "sync"} /\ wpc'[w] = "done") =>
              (wres'[w] = wpc[w] /\ fs' = fs)
        /\ (wres[w] = "none" /\ wres'[w] \in {"copy", "sync"}) =>
              (wpc[w] = wres'[w] /\ wpc'[w] = "done" /\ fs' = fs)]_vars

\* C27 witness: one call has returned the error of its copy, another the
\* error of its sync, and the target holds the entry of a third, which
\* returned success.
C27_Witness ==
    \E w1, w2, w3 \in Writers :
        /\ wpc[w1] = "done" /\ wres[w1] = "copy"
        /\ wpc[w2] = "done" /\ wres[w2] = "sync"
        /\ wpc[w3] = "done" /\ wres[w3] = "ok"
        /\ fs[TargetName] = File(Payload(w3))

\* The staging names that hold bytes staged by call w: the names w linked
\* and that nothing has consumed or removed since.
StagedBy(w) ==
    {s \in Salts : fs[s].exists /\
        \E i \in DOMAIN fs[s].data : fs[s].data[i][1] = w}

NothingOf(w) ==
    \A n \in Names : \A i \in DOMAIN fs[n].data : fs[n].data[i][1] # w

\* C29: the staging link is run again only after a run whose freshly drawn
\* name collided with an existing entry, and never after the third run; a
\* run that ends the call (the third collision or another error) yields the
\* staging error and changes nothing in the directory, the call's cleanup
\* and return leave the target as it was, and no entry ever held its bytes.
C29_RetryOnlyOnCollisionThrice ==
    [][\A w \in Writers :
        /\ attempts'[w] <= retryAttempts
        /\ (wpc[w] = "stage" /\ wpc'[w] = "stage" /\ attempts'[w] # attempts[w]) =>
              /\ attempts'[w] = attempts[w] + 1
              /\ attempts'[w] < retryAttempts
              /\ tmpPath'[w] \in Salts
              /\ fs[tmpPath'[w]].exists
              /\ fs' = fs
        /\ (wpc[w] = "stage" /\ attempts'[w] = retryAttempts) =>
              (wpc'[w] = "cleanup" /\ wres'[w] = "staging" /\ fs' = fs)
        /\ (wpc[w] = "stage" /\ wpc'[w] = "cleanup") =>
              (wres'[w] = "staging" /\ fs' = fs)
        /\ (wpc[w] = "cleanup" /\ wres[w] = "staging" /\ wpc'[w] = "done") =>
              (wres'[w] = "staging" /\ fs'[TargetName] = fs[TargetName])
        /\ wres'[w] = "staging" => NothingOf(w)']_vars

\* C29 witness: a call whose staging name collided three times is about to
\* return the staging error, the colliding entry is another call's, and the
\* target holds what it held before the calls.
C29_Witness ==
    \E w \in Writers :
        /\ wpc[w] = "cleanup"
        /\ wres[w] = "staging"
        /\ attempts[w] = retryAttempts
        /\ fs[tmpPath[w]].exists
        /\ pre.exists /\ fs[TargetName] = pre

\* C30: the cleanup of a call removes only entries the call linked itself:
\* a staging entry that holds no bytes of the call is still there, as it
\* was, after the step on which the call cleans up and returns.
C30_CleanupRemovesOnlyOwn ==
    [][\A w \in Writers : \A s \in Salts :
        (wpc[w] = "cleanup" /\ wpc'[w] = "done" /\ fs[s].exists
            /\ s \notin StagedBy(w)) => fs'[s] = fs[s]]_vars

\* ------------------------------------------------------ label checks
\* The call of c ended on a label check or on disabled referrer detection.
Rejected(c) == how[c] \in {"disabled", "noref", "baddigest"}

\* C31: a call with a missing reference label or an invalid manifest digest
\* (or, for CheckReferrer, with referrer detection disabled) returns on its
\* first step, TryFetchMetadata with the label error and CheckReferrer with
\* false; that step changes neither the gate map, the locks nor any
\* destination file, and the call never was at the resolver or the
\* registry: it has no path, no mutex and no run of fetch-and-write.
C31_BadLabelsEndBeforeGate ==
    [][\A c \in Callers :
        /\ (cpc[c] = "call" /\ Rejected(c)') =>
              /\ cpc'[c] = "done"
              /\ cres'[c] \in {"label", "false"}
              /\ how'[c] = "disabled" => cres'[c] = "false"
              /\ gateMap' = gateMap /\ holder' = holder /\ meta' = meta
              /\ fs' = fs /\ rpc' = rpc
        /\ Rejected(c)' =>
              /\ cpc[c] \in {"call", "done"}
              /\ path'[c] = 0 /\ mu'[c] = 0 /\ runs'[c] = 0
        /\ cres'[c] = "label" => how'[c] \in {"noref", "baddigest"}]_vars

\* C31 witness: one TryFetchMetadata call was ended by the digest check,
\* one CheckReferrer call by the missing reference label, while a third
\* caller is writing inside the gate of its path.
C31_Witness ==
    \E c1, c2, c3 \in Callers :
        /\ cpc[c1] = "done" /\ cres[c1] = "label" /\ how[c1] = "baddigest"
        /\ cpc[c2] = "done" /\ cres[c2] = "false" /\ how[c2] = "noref"
        /\ cpc[c3] = "unpack"

\* --------------------------------------------- the containerd config updater
\* plugins."io.containerd.grpc.v1.cri".containerd of a configuration.
ContainerdOf(config) ==
    Lookup(Lookup(Lookup(config, "plugins"), CriPlugin), "containerd")
\* A runtime configuration (nil for none) with snapshotter set to "nydus".
WithNydus(runtime) ==
    Map([k \in DOMAIN runtime.m \cup {"snapshotter"} |->
            IF k = "snapshotter" THEN String("nydus") ELSE runtime.m[k]])
\* updateTomlConfig has returned nil for a runtime handler.
UpdatedForHandler == upc = "done" /\ ures = "ok" /\ runtimeHandler # ""

\* C32: after a successful updateTomlConfig with a runtime handler, the
\* entry containerd.runtimes[runtimeHandler] of the file is the default
\* runtime's configuration of the input (empty when there is none) with
\* snapshotter "nydus", and containerd.snapshotter is what the input had.
C32_HandlerGetsDefaultWithNydus ==
    UpdatedForHandler =>
        /\ Lookup(Lookup(ContainerdOf(configFile), "runtimes"), runtimeHandler)
              = WithNydus(ExtractDefaultRuntimeConfig(configIn))
        /\ Lookup(ContainerdOf(configFile), "snapshotter")
              = Lookup(ContainerdOf(configIn), "snapshotter")

====
